---- MODULE Spec2Model ----
(***************************************************************************)
(* State synchronization engine of the Senville AC desktop control         *)
(* (src/gui_control.py, class SenvilleGUI): the poll loop, the per-command  *)
(* worker threads, the Tk event queue of the UI thread, the reconciliation  *)
(* of a device state into the display (update_status_display) and the code  *)
(* tables and unit conversions it uses.                                     *)
(*                                                                          *)
(* The device library (midea_beautiful) is outside the repository.  The     *)
(* model takes from the source only what the source relies on:              *)
(*   - appliance_state(...) opens a session that holds ONE state object;    *)
(*   - `device.state` yields that object (a reference: the command threads  *)
(*     write a field of it and device.apply() then sends it), and the       *)
(*     access is the program's "fetch": it may raise, and it may or may not *)
(*     have refreshed the object's fields from the appliance;               *)
(*   - device.apply() sends the object's fields to the appliance and may    *)
(*     raise.                                                               *)
(***************************************************************************)
EXTENDS Integers, Sequences, FiniteSets, TLC

(***************************************************************************)
(* Bounds of the model                                                      *)
(***************************************************************************)
\* worker threads (refresh and command threads) alive at the same time
MaxWorkers == 2
\* callbacks waiting in the Tk event queue (root.after(0, ...))
MaxQueue == 2
\* pending root.after(1000, refresh_status) timers
MaxTimers == 1
\* operator interactions (clicks, selections, drags) in one run
MaxUserOps == 2
\* threads the operator and the poll loop start in one run (the first refresh thread and
\* the refresh that follows a command are not counted)
MaxThreads == 1
\* the same two, when the operator only issues commands
CmdUserOps == 2
CmdThreads == 2
\* readings of the wall clock that differ
MaxClock == 2
\* operator interactions and command threads in the runs over the code tables and conversions
CodecUserOps == 3
CodecThreads == 2

(***************************************************************************)
(* Inputs drawn from small sets                                             *)
(***************************************************************************)
\* the values the operator picks in the mode and fan selectors
ModeInputs == {"cool", "heat"}
FanInputs == {"Low", "High"}
\* the values the operator drags the slider to, per unit
SliderInputs(unit) == IF unit = "F" THEN {68, 75} ELSE {20, 24}

(***************************************************************************)
(* CodecTables: the dictionaries of update_status_display, set_mode and     *)
(* set_fan_speed, and Python's int() on the conversion expressions.         *)
(***************************************************************************)
\* int(n / d) for d > 0: Python's int() truncates toward zero
Trunc(n, d) == IF n >= 0 THEN n \div d ELSE -((-n) \div d)

\* int(c * 9 / 5 + 32)
CelsiusToFahrenheit(c) == Trunc(c * 9 + 160, 5)

\* a slip of FahrenheitToCelsius: the offset of 32 is forgotten
FahrenheitToCelsius_NoOffset(f) == Trunc(f * 5, 9)

\* int((f - 32) * 5 / 9)
FahrenheitToCelsius(f) == Trunc((f - 32) * 5, 9)

\* mode_map of update_status_display
mode_map == (1 :> "Auto") @@ (2 :> "Cool") @@ (3 :> "Dry") @@ (4 :> "Heat") @@ (5 :> "Fan")

\* a slip of mode_reverse: the selector is given the names of the label
mode_reverse_Labels == mode_map

\* mode_reverse of update_status_display
mode_reverse == (1 :> "auto") @@ (2 :> "cool") @@ (3 :> "dry") @@ (4 :> "heat") @@ (5 :> "fan")

\* fan_map of update_status_display (it has no entry for 100)
fan_map == (20 :> "Low") @@ (40 :> "Med-Low") @@ (60 :> "Medium") @@ (80 :> "Med-High") @@ (102 :> "Auto")

\* fan_reverse of update_status_display
fan_reverse == (20 :> "Low") @@ (40 :> "Med-Low") @@ (60 :> "Medium") @@ (80 :> "Med-High") @@ (102 :> "Auto") @@ (100 :> "High")

\* mode_map of set_mode
set_mode_map == ("auto" :> 1) @@ ("cool" :> 2) @@ ("dry" :> 3) @@ ("heat" :> 4) @@ ("fan" :> 5)

\* a slip of set_fan_map: the entry for High is missing
set_fan_map_NoHigh ==
    ("Auto" :> 102) @@ ("Low" :> 20) @@ ("Med-Low" :> 40) @@ ("Medium" :> 60) @@ ("Med-High" :> 80)

\* fan_map of set_fan_speed
set_fan_map == ("Auto" :> 102) @@ ("Low" :> 20) @@ ("Med-Low" :> 40) @@ ("Medium" :> 60) @@ ("Med-High" :> 80) @@ ("High" :> 100)

\* dict.get(key, default)
DictGet(d, key, default) == IF key \in DOMAIN d THEN d[key] ELSE default

(***************************************************************************)
(* State                                                                    *)
(***************************************************************************)
VARIABLES
    running,             \* self.running
    destroyed,           \* self.root.destroy() has run
    auto_refresh,        \* self.auto_refresh (tk.BooleanVar)
    temp_slider_active,  \* self.temp_slider_active: the temperature edit guard
    temp_unit,           \* self.temp_unit (tk.StringVar): "F" or "C"
    device,              \* self.device: 0 is None, else the index of a session in sess
    sess,                \* the state object of every session appliance_state() has opened
    appliance,           \* the state the appliance itself holds
    current_state,       \* self.current_state: 0 is None, else the session whose state object it refers to
    ui,                  \* status_labels, the selectors' tk variables, temp_label, last_updated_label, status_bar
    dialogs,             \* the titles messagebox.showerror has shown
    workers,             \* the refresh and command threads
    queue,               \* callbacks given to root.after(0, ...), in the order of the calls
    timers,              \* pending root.after(1000, self.refresh_status), each with the command that
                         \* set it and the number of root.after(0, ...) callbacks still due before it
    poll,                \* auto_refresh_loop's position
    clock,               \* the last reading of datetime.now()
    g                    \* history of the run, read by the properties only

vars == <<running, destroyed, auto_refresh, temp_slider_active, temp_unit, device, sess,
          appliance, current_state, ui, dialogs, workers, queue, timers, poll, clock, g>>

\* the fields of the library's state object that the program reads and writes
DeviceState(r, m, t, i, f, v, h) ==
    [running |-> r, mode |-> m, target_temperature |-> t, indoor_temperature |-> i,
     fan_speed |-> f, vertical_swing |-> v, horizontal_swing |-> h]

\* the states the appliance may hold when the program starts: off, cooling to 24 C, fan
\* medium; and on, in a mode and at a fan speed that are in no table, heating to 20 C
InitStates ==
    {DeviceState(FALSE, 2, 24, 22, 60, FALSE, FALSE), DeviceState(TRUE, 99, 20, 18, 77, TRUE, FALSE)}

NoState == DeviceState(FALSE, 0, 0, 0, 0, FALSE, FALSE)

\* threading.Thread(target=..., daemon=True).start(): the new thread, at its first statement
Thread(kind, flag, num, msg) ==
    [kind |-> kind, pc |-> "get_device", dev |-> 0, flag |-> flag, num |-> num, msg |-> msg, snap |-> NoState]

\* the live threads, oldest first
Slots == 1..Len(workers)

Callback(fn, sid, msg) == [fn |-> fn, sid |-> sid, msg |-> msg]

\* f"{temp}°{unit}" of on_temp_change and update_status_display
TempText(temp, unit) == ToString(temp) \o "°" \o unit

\* the widgets as create_widgets builds them
InitialWidgets ==
    [power |-> "--", mode |-> "--", target_temp |-> "--", indoor_temp |-> "--",
     fan_speed |-> "--", vswing |-> "--", hswing |-> "--",
     mode_var |-> "auto", temp_var |-> 72, temp_label |-> "72°F", fan_var |-> "Auto",
     vswing_var |-> FALSE, hswing_var |-> FALSE,
     last_updated_label |-> "--", status_bar |-> "Ready"]

\* The history of a run: what is left of its bounds, and what the properties need to know
\* of the past.
\*   raised       a thread ended with an uncaught exception
\*   issued       the commands the operator issued, oldest first
\*   pushed       the commands whose device.apply() returned, in the order of the returns
\*   scheduled    the number of root.after(1000, self.refresh_status) calls that returned
\*   guarded      update_status_display has run while temp_slider_active
\*   fails        the number of device.state accesses that raised
\*   okAfterFail  the last device.state access that returned came after one that raised
\*   recAfterFail update_status_display has run for such an access
\*   afterSettle  "" until the timer of a power command fires, then "wait" until the next
\*                update_status_display, then the power text that one displayed
History(ops, threads) ==
    [opsLeft |-> ops, threadsLeft |-> threads, raised |-> FALSE, issued |-> <<>>,
     pushed |-> <<>>, scheduled |-> 0, guarded |-> FALSE, fails |-> 0, okAfterFail |-> FALSE,
     recAfterFail |-> FALSE, afterSettle |-> ""]

\* __init__: the widgets, refresh_status() and start_auto_refresh() have run
Constructed ==
    /\ running = TRUE
    /\ destroyed = FALSE
    /\ auto_refresh = TRUE
    /\ temp_slider_active = FALSE
    /\ temp_unit = "F"
    /\ device = 0
    /\ sess = <<>>
    /\ appliance \in InitStates
    /\ current_state = 0
    /\ ui = [InitialWidgets EXCEPT !.status_bar = "Refreshing status..."]
    /\ dialogs = {}
    /\ workers = <<Thread("refresh", FALSE, 0, "")>>
    /\ queue = <<>>
    /\ timers = <<>>
    /\ poll = "test"
    /\ clock = 0

Init ==
    /\ Constructed
    /\ g = History(MaxUserOps, MaxThreads)

(***************************************************************************)
(* Reconciler: update_status_display                                        *)
(***************************************************************************)
\* the temperature update_status_display shows for a Celsius value
Shown(celsius, unit) == IF unit = "F" THEN CelsiusToFahrenheit(celsius) ELSE celsius

\* a slip of ModeText: an unknown code is shown as its bare numeral
ModeText_Numeral(code) == DictGet(mode_map, code, ToString(code))

\* mode_map.get(state.mode, f"Unknown ({state.mode})")
ModeText(code) == DictGet(mode_map, code, "Unknown (" \o ToString(code) \o ")")

\* fan_map.get(state.fan_speed, f"{state.fan_speed}")
FanText(code) == DictGet(fan_map, code, ToString(code))

\* a slip of TempControl: the temperature control is written whether or not the slider is held
TempControl_Unguarded(w, target_temp, unit, active) ==
    [w EXCEPT !.temp_var = target_temp, !.temp_label = TempText(target_temp, unit)]

\* a slip of TempControl: the slider moves halfway from the value it shows to the target
TempControl_Relative(w, target_temp, unit, active) ==
    IF ~active
    THEN [w EXCEPT !.temp_var = (w.temp_var + target_temp) \div 2,
                   !.temp_label = TempText((w.temp_var + target_temp) \div 2, unit)]
    ELSE w

\* if not self.temp_slider_active: self.temp_var.set(...); self.temp_label.config(...)
TempControl(w, target_temp, unit, active) ==
    IF ~active
    THEN [w EXCEPT !.temp_var = target_temp, !.temp_label = TempText(target_temp, unit)]
    ELSE w

\* the widgets after update_status_display(state), from the widgets w before it
UpdateStatusDisplay(w, state, unit, active, now) ==
    LET target_temp == Shown(state.target_temperature, unit)
        indoor_temp == Shown(state.indoor_temperature, unit)
    IN  [TempControl(w, target_temp, unit, active) EXCEPT
            !.power = IF state.running THEN "ON" ELSE "OFF",
            !.mode = ModeText(state.mode),
            !.mode_var = IF state.mode \in DOMAIN mode_reverse THEN mode_reverse[state.mode] ELSE @,
            !.target_temp = TempText(target_temp, unit),
            !.indoor_temp = TempText(indoor_temp, unit),
            !.fan_speed = FanText(state.fan_speed),
            !.fan_var = IF state.fan_speed \in DOMAIN fan_reverse THEN fan_reverse[state.fan_speed] ELSE @,
            !.vswing = IF state.vertical_swing THEN "ON" ELSE "OFF",
            !.hswing = IF state.horizontal_swing THEN "ON" ELSE "OFF",
            !.vswing_var = state.vertical_swing,
            !.hswing_var = state.horizontal_swing,
            !.last_updated_label = ToString(now),
            !.status_bar = "Status updated"]

(***************************************************************************)
(* The UI thread: the operator's events and the Tk callbacks.  Tk runs one  *)
(* handler at a time, and none once the root is destroyed.                  *)
(***************************************************************************)
\* one more operator interaction
UserOp == [g EXCEPT !.opsLeft = @ - 1]

\* one more thread started
Started(h) == [h EXCEPT !.threadsLeft = @ - 1]

\* one more command issued
Issued(h, kind, flag, num) ==
    [h EXCEPT !.issued = Append(@, [kind |-> kind, flag |-> flag, num |-> num])]

MayInteract == ~destroyed /\ g.opsLeft > 0

\* refresh_status: the status bar, and a refresh thread is started
RefreshStatus(w) ==
    /\ Len(workers) < MaxWorkers
    /\ ui' = [w EXCEPT !.status_bar = "Refreshing status..."]
    /\ workers' = Append(workers, Thread("refresh", FALSE, 0, ""))

\* a set_* handler: the status bar, and a command thread is started
StartCommand(w, bar, kind, flag, num, msg) ==
    /\ Len(workers) < MaxWorkers
    /\ g.threadsLeft > 0
    /\ ui' = [w EXCEPT !.status_bar = bar]
    /\ workers' = Append(workers, Thread(kind, flag, num, msg))

\* the "Refresh Status" button
ManualRefresh ==
    /\ MayInteract
    /\ g.threadsLeft > 0
    /\ RefreshStatus(ui)
    /\ g' = Started(UserOp)
    /\ UNCHANGED <<running, destroyed, auto_refresh, temp_slider_active, temp_unit, device, sess,
                   appliance, current_state, dialogs, queue, timers, poll, clock>>

\* on_temp_press
on_temp_press ==
    /\ MayInteract
    /\ ~temp_slider_active
    /\ temp_slider_active' = TRUE
    /\ g' = UserOp
    /\ UNCHANGED <<running, destroyed, auto_refresh, temp_unit, device, sess, appliance,
                   current_state, ui, dialogs, workers, queue, timers, poll, clock>>

\* the slider is dragged to v: the Scale sets temp_var and calls on_temp_change
on_temp_change(v) ==
    /\ MayInteract
    /\ temp_slider_active
    /\ ui' = [ui EXCEPT !.temp_var = v, !.temp_label = TempText(v, temp_unit)]
    /\ g' = UserOp
    /\ UNCHANGED <<running, destroyed, auto_refresh, temp_slider_active, temp_unit, device, sess,
                   appliance, current_state, dialogs, workers, queue, timers, poll, clock>>

\* temp_c of set_temperature
TempC(temp, unit) == IF unit = "C" THEN temp ELSE FahrenheitToCelsius(temp)

\* a slip of on_temp_release: the guard is kept while the command is on its way
on_temp_release_KeepsGuard ==
    /\ MayInteract
    /\ temp_slider_active
    /\ StartCommand(ui, "Setting temperature to " \o TempText(ui.temp_var, temp_unit) \o "...",
                    "temp", FALSE, TempC(ui.temp_var, temp_unit),
                    "Temperature set to " \o TempText(ui.temp_var, temp_unit))
    /\ g' = Issued(Started(UserOp), "temp", FALSE, TempC(ui.temp_var, temp_unit))
    /\ UNCHANGED <<running, destroyed, auto_refresh, temp_slider_active, temp_unit, device, sess,
                   appliance, current_state, dialogs, queue, timers, poll, clock>>

\* on_temp_release, and the set_temperature it calls
on_temp_release ==
    /\ MayInteract
    /\ temp_slider_active
    /\ temp_slider_active' = FALSE
    /\ StartCommand(ui, "Setting temperature to " \o TempText(ui.temp_var, temp_unit) \o "...",
                    "temp", FALSE, TempC(ui.temp_var, temp_unit),
                    "Temperature set to " \o TempText(ui.temp_var, temp_unit))
    /\ g' = Issued(Started(UserOp), "temp", FALSE, TempC(ui.temp_var, temp_unit))
    /\ UNCHANGED <<running, destroyed, auto_refresh, temp_unit, device, sess, appliance,
                   current_state, dialogs, queue, timers, poll, clock>>

OnOff(b) == IF b THEN "ON" ELSE "OFF"

\* set_power(power_on): the ON and OFF buttons
set_power(power_on) ==
    /\ MayInteract
    /\ StartCommand(ui, "Turning " \o OnOff(power_on) \o "...", "power", power_on, 0,
                    "Power " \o OnOff(power_on))
    /\ g' = Issued(Started(UserOp), "power", power_on, 0)
    /\ UNCHANGED <<running, destroyed, auto_refresh, temp_slider_active, temp_unit, device, sess,
                   appliance, current_state, dialogs, queue, timers, poll, clock>>

\* the operator selects mode in the combobox, which calls set_mode
set_mode(mode) ==
    /\ MayInteract
    /\ StartCommand([ui EXCEPT !.mode_var = mode], "Setting mode to " \o mode \o "...",
                    "mode", FALSE, DictGet(set_mode_map, mode, 1), "Mode set to " \o mode)
    /\ g' = Issued(Started(UserOp), "mode", FALSE, DictGet(set_mode_map, mode, 1))
    /\ UNCHANGED <<running, destroyed, auto_refresh, temp_slider_active, temp_unit, device, sess,
                   appliance, current_state, dialogs, queue, timers, poll, clock>>

\* the operator selects fan in the combobox, which calls set_fan_speed
set_fan_speed(fan) ==
    /\ MayInteract
    /\ StartCommand([ui EXCEPT !.fan_var = fan], "Setting fan speed to " \o fan \o "...",
                    "fan", FALSE, DictGet(set_fan_map, fan, 102), "Fan speed set to " \o fan)
    /\ g' = Issued(Started(UserOp), "fan", FALSE, DictGet(set_fan_map, fan, 102))
    /\ UNCHANGED <<running, destroyed, auto_refresh, temp_slider_active, temp_unit, device, sess,
                   appliance, current_state, dialogs, queue, timers, poll, clock>>

Enabled(b) == IF b THEN "enabled" ELSE "disabled"

\* the operator flips the checkbutton, which calls set_vswing (it sets no status bar text)
set_vswing ==
    /\ MayInteract
    /\ StartCommand([ui EXCEPT !.vswing_var = ~ui.vswing_var], ui.status_bar,
                    "vswing", ~ui.vswing_var, 0, "Vertical swing " \o Enabled(~ui.vswing_var))
    /\ g' = Issued(Started(UserOp), "vswing", ~ui.vswing_var, 0)
    /\ UNCHANGED <<running, destroyed, auto_refresh, temp_slider_active, temp_unit, device, sess,
                   appliance, current_state, dialogs, queue, timers, poll, clock>>

\* the operator flips the checkbutton, which calls set_hswing
set_hswing ==
    /\ MayInteract
    /\ StartCommand([ui EXCEPT !.hswing_var = ~ui.hswing_var], ui.status_bar,
                    "hswing", ~ui.hswing_var, 0, "Horizontal swing " \o Enabled(~ui.hswing_var))
    /\ g' = Issued(Started(UserOp), "hswing", ~ui.hswing_var, 0)
    /\ UNCHANGED <<running, destroyed, auto_refresh, temp_slider_active, temp_unit, device, sess,
                   appliance, current_state, dialogs, queue, timers, poll, clock>>

\* the slider value after update_temp_scale, under the unit just selected
Rescaled(temp, unit) ==
    IF unit = "C"
    THEN (IF temp > 31 THEN FahrenheitToCelsius(temp) ELSE temp)
    ELSE (IF temp < 60 THEN CelsiusToFahrenheit(temp) ELSE temp)

\* the operator clicks a unit radiobutton, which calls update_temp_scale and on_temp_change
update_temp_scale(unit) ==
    /\ MayInteract
    /\ temp_unit' = unit
    /\ ui' = [ui EXCEPT !.temp_var = Rescaled(ui.temp_var, unit),
                        !.temp_label = TempText(Rescaled(ui.temp_var, unit), unit)]
    /\ g' = UserOp
    /\ UNCHANGED <<running, destroyed, auto_refresh, temp_slider_active, device, sess, appliance,
                   current_state, dialogs, workers, queue, timers, poll, clock>>

\* the operator flips the auto-refresh checkbutton, which calls toggle_auto_refresh
toggle_auto_refresh ==
    /\ MayInteract
    /\ auto_refresh' = ~auto_refresh
    /\ ui' = [ui EXCEPT !.status_bar = IF ~auto_refresh THEN "Auto-refresh enabled"
                                                        ELSE "Auto-refresh disabled"]
    /\ g' = UserOp
    /\ UNCHANGED <<running, destroyed, temp_slider_active, temp_unit, device, sess, appliance,
                   current_state, dialogs, workers, queue, timers, poll, clock>>

\* on_closing
on_closing ==
    /\ ~destroyed
    /\ running' = FALSE
    /\ destroyed' = TRUE
    /\ UNCHANGED <<auto_refresh, temp_slider_active, temp_unit, device, sess, appliance,
                   current_state, ui, dialogs, workers, queue, timers, poll, clock, g>>

\* datetime.now(): a reading no earlier than the last one
Readings == {t \in clock..(clock + 1) : t <= MaxClock}

\* an update_status_display is waiting in q
LaterDisplay(q) == \E i \in 1..Len(q) : q[i].fn = "update_status_display"

\* the timers once Tk has run one root.after(0, ...) callback
Served(ts) == [i \in DOMAIN ts |-> [ts[i] EXCEPT !.ahead = IF @ > 0 THEN @ - 1 ELSE 0]]

\* Tk runs the oldest root.after(0, ...) callback
TkIdle ==
    /\ ~destroyed
    /\ queue # <<>>
    /\ queue' = Tail(queue)
    /\ timers' = Served(timers)
    /\ LET cb == Head(queue) IN
        \/ /\ cb.fn = "update_status_display"
           /\ \E now \in Readings :
                /\ clock' = now
                /\ ui' = UpdateStatusDisplay(ui, sess[cb.sid], temp_unit, temp_slider_active, now)
           /\ g' = [g EXCEPT
                      !.guarded = @ \/ temp_slider_active,
                      !.recAfterFail = @ \/ (g.okAfterFail /\ ~LaterDisplay(Tail(queue))),
                      !.afterSettle = IF @ = "wait" THEN ui'.power ELSE @]
           /\ UNCHANGED <<dialogs, workers>>
        \/ /\ cb.fn = "update_status_bar"
           /\ ui' = [ui EXCEPT !.status_bar = cb.msg]
           /\ UNCHANGED <<dialogs, workers, clock, g>>
        \/ /\ cb.fn = "showerror"
           /\ dialogs' = dialogs \cup {cb.msg}
           /\ UNCHANGED <<ui, workers, clock, g>>
        \/ /\ cb.fn = "refresh_status"
           /\ g.threadsLeft > 0
           /\ RefreshStatus(ui)
           /\ g' = Started(g)
           /\ UNCHANGED <<dialogs, clock>>
    /\ UNCHANGED <<running, destroyed, auto_refresh, temp_slider_active, temp_unit, device, sess,
                   appliance, current_state, poll>>

\* Tk runs the oldest root.after(1000, self.refresh_status) timer; the callbacks that were due
\* when it was set have run
TkTimer ==
    /\ ~destroyed
    /\ timers # <<>>
    /\ Head(timers).ahead = 0
    /\ timers' = Tail(timers)
    /\ RefreshStatus(ui)
    /\ g' = [g EXCEPT !.afterSettle = IF @ = "" /\ Head(timers).kind = "power" THEN "wait" ELSE @]
    /\ UNCHANGED <<running, destroyed, auto_refresh, temp_slider_active, temp_unit, device, sess,
                   appliance, current_state, dialogs, queue, poll, clock>>

(***************************************************************************)
(* The worker threads: refresh_thread and the threads of the set_* commands *)
(* A statement that touches nothing shared is taken together with the next  *)
(* one that does.                                                           *)
(***************************************************************************)
\* the threads without thread w
Without(w) == SubSeq(workers, 1, w - 1) \o SubSeq(workers, w + 1, Len(workers))

\* a thread ends, and ends with an uncaught exception when raised; h is the history so far
Ended(w, raised, h) ==
    /\ workers' = Without(w)
    /\ g' = [h EXCEPT !.raised = @ \/ raised]

\* root.after(0, ...) of a thread that then ends: it raises once the root is destroyed, and
\* it raises inside the except clause when that clause is what calls it
AfterAndEnd(w, cb, h) ==
    IF destroyed
    THEN Ended(w, TRUE, h) /\ UNCHANGED queue
    ELSE /\ Len(queue) < MaxQueue
         /\ queue' = Append(queue, cb)
         /\ Ended(w, FALSE, h)

\* the session's state object after an access of device.state
Accessed(sid, fresh) == IF fresh THEN [sess EXCEPT ![sid] = appliance] ELSE sess

Commands == {"power", "mode", "temp", "fan", "vswing", "hswing"}

\* device.state.<field> = <value> of a command thread t, on the state object s
Assigned(s, t) ==
    CASE t.kind = "power" -> [s EXCEPT !.running = t.flag]
      [] t.kind = "mode" -> [s EXCEPT !.mode = t.num]
      [] t.kind = "temp" -> [s EXCEPT !.target_temperature = t.num]
      [] t.kind = "fan" -> [s EXCEPT !.fan_speed = t.num]
      [] t.kind = "vswing" -> [s EXCEPT !.vertical_swing = t.flag]
      [] t.kind = "hswing" -> [s EXCEPT !.horizontal_swing = t.flag]

\* get_device has returned session d to thread w (`if device:` holds). refresh_thread begins
\* its access of device.state; a command thread does device.state.<field> = <value>
Proceed(w, d) ==
    IF workers[w].kind = "refresh"
    THEN /\ workers' = [workers EXCEPT ![w].pc = "fetching", ![w].dev = d]
         /\ UNCHANGED sess
    ELSE /\ workers' = [workers EXCEPT ![w].pc = "apply", ![w].dev = d]
         /\ \E fresh \in BOOLEAN :
              sess' = [sess EXCEPT ![d] = Assigned(Accessed(d, fresh)[d], workers[w])]

\* get_device, when self.device is set: the session is returned
GetDeviceCached(w) ==
    /\ workers[w].pc = "get_device"
    /\ device # 0
    /\ Proceed(w, device)
    /\ UNCHANGED <<running, destroyed, auto_refresh, temp_slider_active, temp_unit, device,
                   appliance, current_state, ui, dialogs, queue, timers, poll, clock, g>>

\* get_device, when self.device is None: appliance_state(...) is called
GetDeviceConnect(w) ==
    /\ workers[w].pc = "get_device"
    /\ device = 0
    /\ workers' = [workers EXCEPT ![w].pc = "connect"]
    /\ UNCHANGED <<running, destroyed, auto_refresh, temp_slider_active, temp_unit, device, sess,
                   appliance, current_state, ui, dialogs, queue, timers, poll, clock, g>>

\* appliance_state(...) returns a new session, which is stored in self.device
ConnectOk(w) ==
    /\ workers[w].pc = "connect"
    /\ sess' = Append(sess, appliance)
    /\ device' = Len(sess) + 1
    /\ workers' = [workers EXCEPT ![w].pc = "return"]
    /\ UNCHANGED <<running, destroyed, auto_refresh, temp_slider_active, temp_unit,
                   appliance, current_state, ui, dialogs, queue, timers, poll, clock, g>>

\* return self.device, after the session was stored
GetDeviceReturn(w) ==
    /\ workers[w].pc = "return"
    /\ Proceed(w, device)
    /\ UNCHANGED <<running, destroyed, auto_refresh, temp_slider_active, temp_unit, device,
                   appliance, current_state, ui, dialogs, queue, timers, poll, clock, g>>

\* appliance_state(...) raises: get_device shows the error and returns None, and the thread
\* does nothing more. Once the root is destroyed messagebox.showerror has no window to show
\* it on: it raises, or it shows the dialog on a root of its own
ConnectFail(w) ==
    /\ workers[w].pc = "connect"
    /\ \/ /\ Ended(w, FALSE, g)
          /\ dialogs' = dialogs \cup {"Connection Error"}
       \/ /\ destroyed
          /\ Ended(w, TRUE, g)
          /\ UNCHANGED dialogs
    /\ UNCHANGED <<running, destroyed, auto_refresh, temp_slider_active, temp_unit, device, sess,
                   appliance, current_state, ui, queue, timers, poll, clock>>

\* a slip of FetchOk: the thread calls update_status_display itself, on the guard value it
\* read when it started
FetchOk_Direct(w) ==
    /\ workers[w].pc = "fetching"
    /\ \E fresh \in BOOLEAN : sess' = Accessed(workers[w].dev, fresh)
    /\ current_state' = workers[w].dev
    /\ ui' = UpdateStatusDisplay(ui, sess'[workers[w].dev], temp_unit, FALSE, clock)
    /\ Ended(w, FALSE, [g EXCEPT !.okAfterFail = g.fails > 0])
    /\ UNCHANGED <<running, destroyed, auto_refresh, temp_slider_active, temp_unit, device,
                   appliance, dialogs, queue, timers, poll, clock>>

\* refresh_thread: state = device.state; self.current_state = state;
\* self.root.after(0, self.update_status_display, state)
FetchOk(w) ==
    /\ workers[w].pc = "fetching"
    /\ \E fresh \in BOOLEAN : sess' = Accessed(workers[w].dev, fresh)
    /\ current_state' = workers[w].dev
    /\ AfterAndEnd(w, Callback("update_status_display", workers[w].dev, ""),
                   [g EXCEPT !.okAfterFail = g.fails > 0])
    /\ UNCHANGED <<running, destroyed, auto_refresh, temp_slider_active, temp_unit, device,
                   appliance, ui, dialogs, timers, poll, clock>>

\* a slip of FetchFail: the failed access is treated as a state and handed to the display
FetchFail_Reconciles(w) ==
    /\ workers[w].pc = "fetching"
    /\ current_state' = workers[w].dev
    /\ AfterAndEnd(w, Callback("update_status_display", workers[w].dev, ""),
                   [g EXCEPT !.fails = @ + 1])
    /\ UNCHANGED <<running, destroyed, auto_refresh, temp_slider_active, temp_unit, device, sess,
                   appliance, ui, dialogs, timers, poll, clock>>

\* refresh_thread: device.state raises; self.root.after(0, self.update_status_bar, f"Error: ...")
FetchFail(w) ==
    /\ workers[w].pc = "fetching"
    /\ AfterAndEnd(w, Callback("update_status_bar", 0, "Error: fetch failed"),
                   [g EXCEPT !.fails = @ + 1])
    /\ UNCHANGED <<running, destroyed, auto_refresh, temp_slider_active, temp_unit, device, sess,
                   appliance, current_state, ui, dialogs, timers, poll, clock>>

\* a slip of ApplyBegin: the follow-up refresh is set before device.apply() has returned
ApplyBegin_Schedules(w) ==
    /\ workers[w].pc = "apply"
    /\ workers' = [workers EXCEPT ![w].pc = "applying", ![w].snap = sess[workers[w].dev]]
    /\ Len(timers) < MaxTimers
    /\ timers' = Append(timers, [kind |-> workers[w].kind, ahead |-> Len(queue)])
    /\ UNCHANGED <<running, destroyed, auto_refresh, temp_slider_active, temp_unit, device, sess,
                   appliance, current_state, ui, dialogs, queue, poll, clock, g>>

\* a command thread: device.apply() begins and takes the state object's fields
ApplyBegin(w) ==
    /\ workers[w].pc = "apply"
    /\ workers' = [workers EXCEPT ![w].pc = "applying", ![w].snap = sess[workers[w].dev]]
    /\ UNCHANGED <<running, destroyed, auto_refresh, temp_slider_active, temp_unit, device, sess,
                   appliance, current_state, ui, dialogs, queue, timers, poll, clock, g>>

\* a command thread: device.apply() returns; self.root.after(1000, self.refresh_status);
\* self.root.after(0, self.update_status_bar, <confirmation>)
ApplyOk(w) ==
    /\ workers[w].pc = "applying"
    /\ appliance' = workers[w].snap
    /\ IF destroyed
       THEN UNCHANGED timers
       ELSE /\ Len(timers) < MaxTimers
            /\ timers' = Append(timers, [kind |-> workers[w].kind, ahead |-> Len(queue)])
    /\ AfterAndEnd(w, Callback("update_status_bar", 0, workers[w].msg),
                   [g EXCEPT !.pushed = Append(@, workers[w].kind),
                             !.scheduled = IF destroyed THEN @ ELSE @ + 1])
    /\ UNCHANGED <<running, destroyed, auto_refresh, temp_slider_active, temp_unit, device, sess,
                   current_state, ui, dialogs, poll, clock>>

\* the text of a command's error dialog
FailText(kind) ==
    CASE kind = "power" -> "Failed to set power"
      [] kind = "mode" -> "Failed to set mode"
      [] kind = "temp" -> "Failed to set temperature"
      [] kind = "fan" -> "Failed to set fan speed"
      [] kind = "vswing" -> "Failed to set vertical swing"
      [] kind = "hswing" -> "Failed to set horizontal swing"

\* a slip of ApplyFail: the failed push is followed up and confirmed like a successful one
ApplyFail_Confirms(w) ==
    /\ workers[w].pc = "applying"
    /\ IF destroyed
       THEN UNCHANGED timers
       ELSE /\ Len(timers) < MaxTimers
            /\ timers' = Append(timers, [kind |-> workers[w].kind, ahead |-> Len(queue)])
    /\ AfterAndEnd(w, Callback("update_status_bar", 0, workers[w].msg), g)
    /\ UNCHANGED <<running, destroyed, auto_refresh, temp_slider_active, temp_unit, device, sess,
                   appliance, current_state, ui, dialogs, poll, clock>>

\* a command thread: device.apply() raises; self.root.after(0, messagebox.showerror, ...)
ApplyFail(w) ==
    /\ workers[w].pc = "applying"
    /\ AfterAndEnd(w, Callback("showerror", 0, FailText(workers[w].kind)), g)
    /\ UNCHANGED <<running, destroyed, auto_refresh, temp_slider_active, temp_unit, device, sess,
                   appliance, current_state, ui, dialogs, timers, poll, clock>>

(***************************************************************************)
(* The poll loop: auto_refresh_loop of start_auto_refresh                   *)
(***************************************************************************)
\* a slip of LoopTest: the loop gives up once an access of device.state has failed
LoopTest_StopsAfterFailure ==
    /\ poll = "test"
    /\ poll' = IF running /\ g.fails = 0 THEN "body" ELSE "done"
    /\ UNCHANGED g
    /\ UNCHANGED <<running, destroyed, auto_refresh, temp_slider_active, temp_unit, device, sess,
                   appliance, current_state, ui, dialogs, workers, queue, timers, clock>>

\* while self.running:
LoopTest ==
    /\ poll = "test"
    /\ poll' = IF running THEN "body" ELSE "done"
    /\ UNCHANGED g
    /\ UNCHANGED <<running, destroyed, auto_refresh, temp_slider_active, temp_unit, device, sess,
                   appliance, current_state, ui, dialogs, workers, queue, timers, clock>>

\* if self.auto_refresh.get(): the variable is read; the read raises once the root is
\* destroyed, and nothing in the loop catches it
LoopBody ==
    /\ poll = "body"
    /\ IF destroyed
       THEN poll' = "raised" /\ g' = [g EXCEPT !.raised = TRUE]
       ELSE poll' = (IF auto_refresh THEN "after" ELSE "sleep") /\ UNCHANGED g
    /\ UNCHANGED <<running, destroyed, auto_refresh, temp_slider_active, temp_unit, device, sess,
                   appliance, current_state, ui, dialogs, workers, queue, timers, clock>>

\* self.root.after(0, self.refresh_status), a call of its own after the read of the
\* variable; it raises once the root is destroyed
LoopAfter ==
    /\ poll = "after"
    /\ IF destroyed
       THEN poll' = "raised" /\ g' = [g EXCEPT !.raised = TRUE] /\ UNCHANGED queue
       ELSE /\ poll' = "sleep"
            /\ Len(queue) < MaxQueue
            /\ queue' = Append(queue, Callback("refresh_status", 0, ""))
            /\ UNCHANGED g
    /\ UNCHANGED <<running, destroyed, auto_refresh, temp_slider_active, temp_unit, device, sess,
                   appliance, current_state, ui, dialogs, workers, timers, clock>>

\* time.sleep(self.refresh_interval) returns
LoopSleep ==
    /\ poll = "sleep"
    /\ poll' = "test"
    /\ UNCHANGED <<running, destroyed, auto_refresh, temp_slider_active, temp_unit, device, sess,
                   appliance, current_state, ui, dialogs, workers, queue, timers, clock, g>>

(***************************************************************************)
(* The program                                                              *)
(***************************************************************************)
Next ==
    \/ ManualRefresh
    \/ on_temp_press
    \/ \E v \in SliderInputs(temp_unit) : on_temp_change(v)
    \/ on_temp_release
    \/ \E b \in BOOLEAN : set_power(b)
    \/ \E m \in ModeInputs : set_mode(m)
    \/ \E f \in FanInputs : set_fan_speed(f)
    \/ set_vswing
    \/ set_hswing
    \/ \E u \in {"F", "C"} : update_temp_scale(u)
    \/ toggle_auto_refresh
    \/ on_closing
    \/ TkIdle
    \/ TkTimer
    \/ \E w \in Slots : GetDeviceCached(w)
    \/ \E w \in Slots : GetDeviceConnect(w)
    \/ \E w \in Slots : ConnectOk(w)
    \/ \E w \in Slots : GetDeviceReturn(w)
    \/ \E w \in Slots : ConnectFail(w)
    \/ \E w \in Slots : FetchOk(w)
    \/ \E w \in Slots : FetchFail(w)
    \/ \E w \in Slots : ApplyBegin(w)
    \/ \E w \in Slots : ApplyOk(w)
    \/ \E w \in Slots : ApplyFail(w)
    \/ LoopTest
    \/ LoopBody
    \/ LoopAfter
    \/ LoopSleep

Spec == Init /\ [][Next]_vars

(***************************************************************************)
(* The program when the operator only issues commands and the window stays  *)
(* open: more commands and threads fit in the bounds.                       *)
(***************************************************************************)
InitCommands ==
    /\ Constructed
    /\ appliance = DeviceState(FALSE, 2, 24, 22, 60, FALSE, FALSE)
    /\ g = History(CmdUserOps, CmdThreads)

NextCommands ==
    \/ \E b \in BOOLEAN : set_power(b)
    \/ \E m \in ModeInputs : set_mode(m)
    \/ TkIdle
    \/ TkTimer
    \/ \E w \in Slots : GetDeviceCached(w)
    \/ \E w \in Slots : GetDeviceConnect(w)
    \/ \E w \in Slots : ConnectOk(w)
    \/ \E w \in Slots : GetDeviceReturn(w)
    \/ \E w \in Slots : ConnectFail(w)
    \/ \E w \in Slots : FetchOk(w)
    \/ \E w \in Slots : FetchFail(w)
    \/ \E w \in Slots : ApplyBegin(w)
    \/ \E w \in Slots : ApplyOk(w)
    \/ \E w \in Slots : ApplyFail(w)
    \/ LoopTest
    \/ LoopBody
    \/ LoopAfter
    \/ LoopSleep

SpecCommands == InitCommands /\ [][NextCommands]_vars

(***************************************************************************)
(* update_status_display on its own: two reconciliations of one state are   *)
(* due, over device states, units and earlier displays drawn from sets      *)
(***************************************************************************)
ReconcileStates ==
    {DeviceState(r, m, t, 22, f, v, h) :
        r \in BOOLEAN, m \in {1, 2, 99}, t \in {17, 24, 30}, f \in {20, 77, 100},
        v \in BOOLEAN, h \in {FALSE}}

\* what the window showed before: nothing yet, or an earlier state of the appliance
EarlierWidgets(unit) ==
    {[InitialWidgets EXCEPT !.status_bar = "Refreshing status..."]}
        \cup {[UpdateStatusDisplay(InitialWidgets, p, unit, FALSE, 0)
                   EXCEPT !.status_bar = "Refreshing status..."] :
                 p \in {DeviceState(TRUE, 4, 28, 25, 102, TRUE, TRUE),
                        DeviceState(FALSE, 3, 19, 16, 40, FALSE, TRUE)}}

InitReconcile ==
    /\ running = TRUE
    /\ destroyed = FALSE
    /\ auto_refresh = FALSE
    /\ temp_slider_active = FALSE
    /\ temp_unit \in {"F", "C"}
    /\ device = 1
    /\ \E s \in ReconcileStates : sess = <<s>> /\ appliance = s
    /\ current_state = 1
    /\ ui \in EarlierWidgets(temp_unit)
    /\ dialogs = {}
    /\ workers = <<>>
    /\ queue = <<Callback("update_status_display", 1, ""), Callback("update_status_display", 1, "")>>
    /\ timers = <<>>
    /\ poll = "sleep"
    /\ clock = 0
    /\ g = History(0, 0)

NextReconcile == TkIdle

SpecReconcile == InitReconcile /\ [][NextReconcile]_vars

(***************************************************************************)
(* The code tables and conversions at work: a state of the appliance has    *)
(* been fetched and waits to be displayed, and the operator then issues the *)
(* mode, the fan speed and the temperature the selectors hold.  The state's *)
(* codes and temperatures are drawn from sets.                              *)
(***************************************************************************)
\* raw mode and fan codes, inside and outside the tables
ModeCodes == {0, 1, 2, 3, 4, 5, 6, 99}
FanCodes == {0, 20, 40, 60, 77, 80, 100, 102}
\* Celsius temperatures of a device state
CelsiusInputs == (0 - 10)..40

CodecStates ==
    {DeviceState(TRUE, m, c, c, f, FALSE, FALSE) :
        m \in ModeCodes, c \in CelsiusInputs, f \in FanCodes}

InitCodec ==
    /\ running = TRUE
    /\ destroyed = FALSE
    /\ auto_refresh = TRUE
    /\ temp_slider_active = FALSE
    /\ temp_unit \in {"F", "C"}
    /\ device = 1
    /\ \E s \in CodecStates : sess = <<s>> /\ appliance = s
    /\ current_state = 1
    /\ ui \in EarlierWidgets(temp_unit)
    /\ dialogs = {}
    /\ workers = <<>>
    /\ queue = <<Callback("update_status_display", 1, "")>>
    /\ timers = <<>>
    /\ poll = "sleep"
    /\ clock = 0
    /\ g = History(CodecUserOps, CodecThreads)

NextCodec ==
    \/ TkIdle
    \/ set_mode(ui.mode_var)
    \/ set_fan_speed(ui.fan_var)
    \/ on_temp_press
    \/ on_temp_release

SpecCodec == InitCodec /\ [][NextCodec]_vars

(***************************************************************************)
(* Properties                                                               *)
(***************************************************************************)
\* this step is Tk running update_status_display
Reconciles ==
    /\ ~destroyed
    /\ queue # <<>>
    /\ Head(queue).fn = "update_status_display"
    /\ queue' = Tail(queue)

\* the state object update_status_display is about to read
Fetched == sess[Head(queue).sid]

\* the threads inside device.apply()
Pushing == {w \in Slots : workers[w].pc = "applying"}

\* the threads inside a call on the device session: an access of device.state or device.apply()
InGateway == {w \in Slots : workers[w].pc \in {"fetching", "applying"}}

\* the commands of one kind among the issued ones, oldest first
IssuedOf(kind) == SelectSeq(g.issued, LAMBDA c : c.kind = kind)

\* the number of commands of one kind whose device.apply() returned
PushedOf(kind) == Len(SelectSeq(g.pushed, LAMBDA k : k = kind))

\* C1 (Guard respected): a reconciliation that runs while temp_slider_active leaves the
\* temperature selector (temp_var) and its label (temp_label) as they are, whatever target
\* temperature the state carries, and writes power, mode, indoor temperature, fan speed and
\* the swings from the state.
C1_GuardRespected ==
    [][(Reconciles /\ temp_slider_active) =>
          /\ ui'.temp_var = ui.temp_var
          /\ ui'.temp_label = ui.temp_label
          /\ ui'.power = OnOff(Fetched.running)
          /\ ui'.mode = ModeText(Fetched.mode)
          /\ ui'.indoor_temp = TempText(Shown(Fetched.indoor_temperature, temp_unit), temp_unit)
          /\ ui'.fan_speed = FanText(Fetched.fan_speed)
          /\ ui'.vswing = OnOff(Fetched.vertical_swing)
          /\ ui'.hswing = OnOff(Fetched.horizontal_swing)]_vars

\* C1 witness: the guard is held, a reconciliation has run under it, and the slider shows a
\* temperature that is not the device's target
C1_Witness ==
    /\ temp_slider_active
    /\ g.guarded
    /\ ui.temp_var \in SliderInputs(temp_unit)
    /\ ui.target_temp # ui.temp_label
    /\ ui.power # "--"

\* C2 (Single-flight, last-write-wins): once two set_mode commands have been issued and the
\* pushes of both have returned, the mode the appliance holds is the mode of the command
\* issued last.
C2_LastWriteWins ==
    (Len(IssuedOf("mode")) = 2 /\ PushedOf("mode") = 2)
        => appliance.mode = IssuedOf("mode")[2].num

\* C3 (At most one push in flight per field): no two threads of commands for the same
\* field are inside device.apply() at once.
C3_OnePushPerField ==
    \A v, w \in Pushing : workers[v].kind = workers[w].kind => v = w

\* C4 (Gateway mutual exclusion): at most one thread is inside a call on the device
\* session, be it an access of device.state or a device.apply().
C4_GatewayExclusive ==
    Cardinality(InGateway) <= 1

\* C5: after the one power command issued has been pushed, the first update_status_display
\* that runs after the settle delay's refresh_status shows the power that was commanded
C5_CommandThenPoll ==
    (Len(IssuedOf("power")) = 1 /\ g.afterSettle \in {"ON", "OFF"}) =>
        g.afterSettle = OnOff(IssuedOf("power")[1].flag)


\* this step is a command thread's device.apply() returning
PushReturns == Len(g'.pushed) = Len(g.pushed) + 1

\* this step is Tk running a root.after(1000, self.refresh_status) timer
FollowUpRuns == Len(timers') < Len(timers)

\* this step is refresh_thread's access of device.state raising
FetchFails == g'.fails = g.fails + 1

\* this step is appliance_state(...) raising in the get_device of a refresh_thread
ConnectFails ==
    \E w \in Slots :
        workers[w].kind = "refresh" /\ workers[w].pc = "connect" /\ workers' = Without(w)

\* this step is Tk running a root.after(0, self.update_status_bar, ...) callback
BarRuns ==
    /\ ~destroyed
    /\ queue # <<>>
    /\ Head(queue).fn = "update_status_bar"
    /\ queue' = Tail(queue)

\* what refresh_thread's except clause hands to Tk
ErrorReport == Callback("update_status_bar", 0, "Error: fetch failed")

\* the follow-up refresh is set only by a returning device.apply(), one at a time, and when
\* it runs its push has returned and its thread has not begun to fetch
FollowUpSequenced ==
    /\ Len(timers') > Len(timers) =>
          /\ PushReturns
          /\ timers' = Append(timers, [kind |-> g'.pushed[Len(g'.pushed)], ahead |-> Len(queue)])
    /\ FollowUpRuns =>
          /\ PushedOf(Head(timers).kind) >= 1
          /\ workers' = Append(workers, Thread("refresh", FALSE, 0, ""))

FailureQuiet ==
    /\ FetchFails =>
          /\ ui' = ui
          /\ clock' = clock
          /\ current_state' = current_state
          /\ sess' = sess
          /\ queue' \in {queue, Append(queue, ErrorReport)}
    /\ ConnectFails =>
          /\ ui' = ui
          /\ clock' = clock
          /\ current_state' = current_state
          /\ sess' = sess
          /\ queue' = queue
    /\ BarRuns => ui' = [ui EXCEPT !.status_bar = Head(queue).msg]

C8_PollingSurvives ==
    [][/\ (FetchFails \/ ConnectFails) => (poll' = poll /\ running' = running)
       /\ (poll' \in {"done", "raised"} /\ poll' # poll) => (~running \/ destroyed)
       /\ (poll = "body" /\ poll' # poll /\ ~destroyed /\ auto_refresh) => poll' = "after"
       /\ (poll = "after" /\ poll' # poll /\ ~destroyed) =>
             (poll' = "sleep" /\ queue' = Append(queue, Callback("refresh_status", 0, "")))
       /\ (poll = "sleep" /\ poll' # poll) => poll' = "test"
       /\ (~destroyed /\ queue # <<>> /\ Head(queue).fn = "refresh_status" /\ queue' = Tail(queue)) =>
             workers' = Append(workers, Thread("refresh", FALSE, 0, ""))
       /\ (Reconciles /\ g.fails > 0) =>
             /\ ui'.power = OnOff(Fetched.running)
             /\ ui'.mode = ModeText(Fetched.mode)
             /\ ui'.target_temp = TempText(Shown(Fetched.target_temperature, temp_unit), temp_unit)
             /\ ui'.last_updated_label # "--"]_vars

\* C8 witness: the operator has done nothing, a fetch has failed, a fetch the poll loop
\* triggered afterwards has been written to the display, and the loop goes on
C8_Witness ==
    /\ g.opsLeft = MaxUserOps
    /\ g.recAfterFail
    /\ ui.power # "--"
    /\ running
    /\ poll \in {"test", "body", "after", "sleep"}

\* C9 (Clean shutdown): once on_closing has run, no step writes the display or hands work
\* to Tk, the poll loop's sleep does not run to its end, and no thread ends with an error.
C9_CleanShutdown ==
    [][destroyed =>
          /\ ui' = ui
          /\ queue' = queue
          /\ timers' = timers
          /\ ~(poll = "sleep" /\ poll' = "test")
          /\ g'.raised = g.raised]_vars

\* the display fields and selectors of the widgets w
Display(w) ==
    <<w.power, w.mode, w.mode_var, w.target_temp, w.indoor_temp, w.temp_var, w.temp_label,
      w.fan_speed, w.fan_var, w.vswing, w.vswing_var, w.hswing, w.hswing_var>>

\* C10 (Idempotent reconciliation): with the guard not held, update_status_display writes
\* the temperatures from the state's Celsius values whatever was shown before, and a second
\* update_status_display of the same state under the same unit leaves every display field
\* and selector as the first left it.
C10_Idempotent ==
    [][(Reconciles /\ ~temp_slider_active) =>
          /\ ui'.target_temp = TempText(Shown(Fetched.target_temperature, temp_unit), temp_unit)
          /\ ui'.indoor_temp = TempText(Shown(Fetched.indoor_temperature, temp_unit), temp_unit)
          /\ ui'.temp_var = Shown(Fetched.target_temperature, temp_unit)
          /\ ui'.temp_label = ui'.target_temp
          /\ Len(queue) = 1 => Display(ui') = Display(ui)]_vars

\* C10 witness: both reconciliations have run, over an earlier display of another state
C10_Witness ==
    /\ queue = <<>>
    /\ clock > 0
    /\ ui.status_bar = "Status updated"
    /\ ui.mode = "Unknown (99)"
    /\ ui.fan_speed = "100"
    /\ ui.temp_var = 86


\* this step is auto_refresh_loop handing refresh_status to Tk
LoopTriggers == poll = "after" /\ poll' = "sleep"

\* C11 (Poll loop life cycle): the loop hands refresh_status to Tk only while running is
\* true and auto-refresh is enabled; running, once false, stays false; and a loop that has
\* ended does not start again.
C11_PollLifeCycle ==
    [][/\ LoopTriggers => (running /\ auto_refresh)
       /\ ~running => ~running'
       /\ poll \in {"done", "raised"} => poll' = poll]_vars


\* the command threads whose device.apply() raises in this step
PushFailing ==
    {w \in Slots : workers[w].pc = "applying" /\ workers' = Without(w) /\ g'.pushed = g.pushed}

\* this step is Tk running a root.after(0, messagebox.showerror, ...) callback
ErrorRuns ==
    /\ ~destroyed
    /\ queue # <<>>
    /\ Head(queue).fn = "showerror"
    /\ queue' = Tail(queue)

\* a failed push sets no follow-up refresh, hands no confirmation to Tk, and neither it
\* nor its error dialog writes a display field or selector
FailedPushQuiet ==
    /\ \A w \in PushFailing :
          /\ timers' = timers
          /\ ui' = ui
          /\ appliance' = appliance
          /\ queue' \in {queue, Append(queue, Callback("showerror", 0, FailText(workers[w].kind)))}
    /\ ErrorRuns => (ui' = ui /\ dialogs' = dialogs \cup {Head(queue).msg})

C13_SingleLazySession ==
    [][/\ Len(sess') <= 1
       /\ device # 0 => device' = device
       /\ (\E w \in Slots : workers[w].pc = "connect" /\ workers' = Without(w)) => device' = device]_vars


\* the values of the mode and fan selectors (the comboboxes' values=...)
ModeValues == {"auto", "cool", "heat", "dry", "fan"}
FanValues == {"Auto", "Low", "Med-Low", "Medium", "Med-High", "High"}

\* the command threads of one kind
ThreadsOf(kind) == {w \in Slots : workers[w].kind = kind}

\* the state has been displayed, and not under the guard
Displayed == queue = <<>> /\ ~g.guarded

\* this step is the operator issuing a command of one kind
Starts(kind) == Len(workers') = Len(workers) + 1 /\ workers'[Len(workers')].kind = kind

\* the thread of the command issued in this step
NewThread == workers'[Len(workers')]

\* C14 (Code round-trip): once a state with a mode code in 1..5 and a fan code in
\* {20,40,60,80,100,102} has been displayed, the command issued with the value the mode
\* selector holds carries the state's mode code, and the command issued with the value
\* the fan selector holds carries the state's fan code.
C14_CodeRoundTrip ==
    [][/\ (Displayed /\ Starts("mode") /\ sess[1].mode \in 1..5) =>
             NewThread.num = sess[1].mode
       /\ (Displayed /\ Starts("fan") /\ sess[1].fan_speed \in {20, 40, 60, 80, 100, 102}) =>
             NewThread.num = sess[1].fan_speed]_vars

\* C14 witness: heat (4) and high (100) were displayed and both commands were issued
\* from the selectors
C14_Witness ==
    /\ Displayed
    /\ sess[1].mode = 4
    /\ sess[1].fan_speed = 100
    /\ ThreadsOf("mode") # {}
    /\ ThreadsOf("fan") # {}
    /\ ui.mode_var = "heat"
    /\ ui.fan_var = "High"

\* n/d rounded to the nearest integer, ties up (d > 0)
RoundNearest(n, d) == (2 * n + d) \div (2 * d)

\* C15 (Celsius-to-Fahrenheit display rounds to nearest): under unit F the displayed target
\* and indoor temperatures are c*9/5+32 rounded to the nearest integer, and a temperature
\* command carries (f-32)*5/9 rounded to the nearest integer, f being the slider's value.
C15_RoundsToNearest ==
    [][/\ (Reconciles /\ temp_unit = "F") =>
             /\ ui'.target_temp = TempText(RoundNearest(Fetched.target_temperature * 9 + 160, 5), "F")
             /\ ui'.indoor_temp = TempText(RoundNearest(Fetched.indoor_temperature * 9 + 160, 5), "F")
       /\ (Starts("temp") /\ temp_unit = "F") =>
             NewThread.num = RoundNearest((ui.temp_var - 32) * 5, 9)]_vars

\* C16 (Unit round-trip): under unit F, once a state with target temperature c has been
\* displayed, the temperature command issued with the value the slider holds carries a
\* Celsius value that differs from c by at most 1.
C16_UnitRoundTrip ==
    [][(Displayed /\ Starts("temp") /\ temp_unit = "F") =>
          /\ NewThread.num - sess[1].target_temperature <= 1
          /\ sess[1].target_temperature - NewThread.num <= 1]_vars

\* C16 witness: 24 C was displayed as 75 F and the command issued from the slider
\* carries 23 C
C16_Witness ==
    /\ Displayed
    /\ temp_unit = "F"
    /\ sess[1].target_temperature = 24
    /\ ui.temp_var = 75
    /\ \E w \in ThreadsOf("temp") : workers[w].num = 23

\* update_status_display has written the fields other than the mode label from the state
RestUpdated ==
    /\ ui'.power = OnOff(Fetched.running)
    /\ ui'.target_temp = TempText(Shown(Fetched.target_temperature, temp_unit), temp_unit)
    /\ ui'.indoor_temp = TempText(Shown(Fetched.indoor_temperature, temp_unit), temp_unit)
    /\ ui'.fan_speed = FanText(Fetched.fan_speed)
    /\ ui'.vswing = OnOff(Fetched.vertical_swing)
    /\ ui'.hswing = OnOff(Fetched.horizontal_swing)
    /\ ui'.last_updated_label = ToString(clock')

\* C17 as stated (Unknown mode code handling): for a mode code N outside 1..5 the mode
\* label becomes "Unknown(N)" and all remaining fields are updated.
C17_UnknownModeText ==
    [][(Reconciles /\ Fetched.mode \notin 1..5) =>
          /\ ui'.mode = "Unknown(" \o ToString(Fetched.mode) \o ")"
          /\ RestUpdated]_vars

\* C17 amended: for a mode code N outside 1..5 the mode label becomes "Unknown (N)", with a
\* space before the parenthesis, and all remaining fields are updated.
C17_UnknownModeSpaced ==
    [][(Reconciles /\ Fetched.mode \notin 1..5) =>
          /\ ui'.mode = "Unknown (" \o ToString(Fetched.mode) \o ")"
          /\ RestUpdated]_vars

\* C17 witness: a state with mode code 99 has been displayed
C17_Witness ==
    /\ queue = <<>>
    /\ sess[1].mode = 99
    /\ ui.mode = "Unknown (99)"
    /\ ui.fan_speed = "Medium"
    /\ ui.last_updated_label # "--"

\* the names of the fan codes
FanNames ==
    (20 :> "Low") @@ (40 :> "Med-Low") @@ (60 :> "Medium") @@ (80 :> "Med-High")
        @@ (100 :> "High") @@ (102 :> "Auto")

\* C18 (Fan speed rendering): the fan-speed field shows Low, Med-Low, Medium, Med-High, High
\* or Auto for the codes 20, 40, 60, 80, 100 and 102, and the numeral of any other code.
C18_FanRendering ==
    [][Reconciles =>
          ui'.fan_speed = DictGet(FanNames, Fetched.fan_speed, ToString(Fetched.fan_speed))]_vars

\* a reconciliation leaves the selector of an unmapped code as it was
UnmappedKept ==
    /\ (Reconciles /\ Fetched.mode \notin 1..5) => ui'.mode_var = ui.mode_var
    /\ (Reconciles /\ Fetched.fan_speed \notin {20, 40, 60, 80, 100, 102}) => ui'.fan_var = ui.fan_var

\* C19 (Selectors stay inside their vocabulary): the mode selector always holds one of
\* auto, cool, heat, dry, fan and the fan selector one of Auto, Low, Med-Low, Medium,
\* Med-High, High; a reconciliation with an unmapped code leaves the selector as it was.
C19_SelectorsInVocabulary ==
    /\ [](ui.mode_var \in ModeValues /\ ui.fan_var \in FanValues)
    /\ [][UnmappedKept]_vars

\* C19 witness: after an earlier display of heat and Auto, a state with the unmapped codes
\* 99 and 77 has been displayed and the selectors still hold heat and Auto
C19_Witness ==
    /\ queue = <<>>
    /\ sess[1].mode = 99
    /\ sess[1].fan_speed = 77
    /\ ui.mode = "Unknown (99)"
    /\ ui.fan_speed = "77"
    /\ ui.mode_var = "heat"
    /\ ui.fan_var = "Auto"


\* C20 (Guard lifetime): temp_slider_active becomes true only by a press, which does
\* nothing else, and false only by the release; the release clears it in the step that
\* starts the temperature command's thread, before that thread has done anything; no
\* thread and no callback touches it; and a reconciliation that finds it clear writes the
\* temperature selector from the state.
C20_GuardLifetime ==
    [][/\ (~temp_slider_active /\ temp_slider_active') =>
             (workers' = workers /\ ui' = ui /\ queue' = queue /\ timers' = timers)
       /\ (temp_slider_active /\ ~temp_slider_active') =>
             (Starts("temp") /\ NewThread.pc = "get_device")
       /\ Starts("temp") => (temp_slider_active /\ ~temp_slider_active')
       /\ (Reconciles /\ ~temp_slider_active) =>
             ui'.temp_var = Shown(Fetched.target_temperature, temp_unit)]_vars

\* C20 witness: the slider was released at 72 F, the command's device.apply() is under
\* way with the guard clear, and a reconciliation has meanwhile written 71 F (the 22 C of
\* the command) into the temperature selector
C20_Witness ==
    /\ ~temp_slider_active
    /\ \E w \in ThreadsOf("temp") : workers[w].pc = "applying" /\ workers[w].num = 22
    /\ ui.temp_var = 71
    /\ ui.target_temp = "71°F"


\* this step is refresh_thread's access of device.state returning
FetchSucceeds ==
    \E w \in Slots :
        workers[w].pc = "fetching" /\ workers' = Without(w) /\ g'.fails = g.fails

\* C21 (Commands work on a copy): the state object self.current_state refers to changes,
\* and self.current_state is reassigned, only in a step in which a fetch succeeds; and the
\* state a returning device.apply() has pushed is the last-known state with the commanded
\* field replaced.
C21_CommandsOnCopy ==
    [][/\ (current_state # 0 /\ ~FetchSucceeds) =>
             (current_state' = current_state /\ sess'[current_state] = sess[current_state])
       /\ (current_state = 0 /\ ~FetchSucceeds) => current_state' = 0
       /\ (PushReturns /\ current_state # 0) =>
             \E w \in Pushing : appliance' = Assigned(sess[current_state], workers[w])]_vars


\* this step is taken by a refresh thread, a command thread or auto_refresh_loop
ThreadSteps == poll' # poll \/ (workers' # workers /\ Len(workers') <= Len(workers))

\* C22 (Guard check is atomic with the write it protects): a reconciliation reads the guard
\* and writes the temperature selector in one step, in which the guard does not change; a
\* press or release runs no reconciliation; the threads write neither the display nor the
\* guard, they only hand callbacks to Tk; and while the guard stays held the temperature
\* selector changes only by the operator's own action.
C22_GuardCheckAtomic ==
    [][/\ Reconciles =>
             /\ temp_slider_active' = temp_slider_active
             /\ ui'.temp_var = (IF temp_slider_active THEN ui.temp_var
                                ELSE Shown(Fetched.target_temperature, temp_unit))
       /\ temp_slider_active' # temp_slider_active =>
             (queue' = queue /\ Display(ui') = Display(ui))
       /\ ThreadSteps => (ui' = ui /\ temp_slider_active' = temp_slider_active)
       /\ (temp_slider_active /\ temp_slider_active' /\ ui'.temp_var # ui.temp_var) =>
             g'.opsLeft < g.opsLeft]_vars

\* C22 witness: the slider is pressed at 72 F, and a reconciliation of a state fetched
\* before the press has run after it and left the selector at 72 F
C22_Witness ==
    /\ temp_slider_active
    /\ g.guarded
    /\ ui.temp_var = 72
    /\ ui.temp_label = "72°F"
    /\ ui.target_temp \in {"75°F", "68°F"}
    /\ workers = <<>>


\* C23 (No drift without user change): under either unit, once a state has been displayed
\* and the slider holds the displayed target temperature, the temperature command a press
\* and release issues carries the state's target temperature in Celsius unchanged.
C23_NoDrift ==
    [][(Displayed /\ Starts("temp") /\ ui.temp_label = ui.target_temp) =>
          NewThread.num = sess[1].target_temperature]_vars

====
